---- MODULE Spec2Model ----
(***************************************************************************)
(* Model of utils.py: the in-memory log store built by                     *)
(* create_logs_database() at module import, the execute_query tool, and    *)
(* the response helpers extract_agent_response / print_agent_response.     *)
(*                                                                         *)
(* Two specifications:                                                     *)
(*   Spec         module import (table creation, per-file / per-entry      *)
(*                loading, commit, binding of the global conn) followed by *)
(*                execute_query calls;                                     *)
(*   SpecExtract  extract_agent_response / print_agent_response applied to *)
(*                result objects of every shape the function inspects.     *)
(***************************************************************************)
EXTENDS Integers, Sequences, FiniteSets, TLC

VARIABLES
    files,          \* the working directory: file name -> content
    pc,             \* position inside the module's top-level code
    fi,             \* index into json_files of the file being processed
    log_entries,    \* the parsed list of the file being processed
    ei,             \* index of the next entry of log_entries
    tableExists,    \* the logs table exists in the database
    rows,           \* rows of logs, in rowid order
    seq,            \* AUTOINCREMENT counter of logs (sqlite_sequence)
    total_entries,  \* the local counter of create_logs_database
    stdout,         \* what print() has written
    conn,           \* the module-level global conn
    query,          \* argument of the last execute_query call
    outcome,        \* outcome of the last execute_query call
    arg,            \* argument of extract_agent_response
    ret,            \* outcome of the last extract_agent_response call
    displayed       \* what display(Markdown(..)) was last given

vars == <<files, pc, fi, log_entries, ei, tableExists, rows, seq,
          total_entries, stdout, conn, query, outcome, arg, ret, displayed>>

storeVars == <<files, pc, fi, log_entries, ei, tableExists, rows, seq,
               total_entries, stdout, conn, query, outcome>>

extractVars == <<arg, ret, displayed>>

(***************************************************************************)
(* Bounds                                                                  *)
(***************************************************************************)
\* longest entry list of one input file
MaxEntries == 2
\* most entries over the three input files together
MaxTotal == 3
\* longest messages list of a result object
MaxMsgs == 2

None == "None"

(***************************************************************************)
(* Input files                                                             *)
(***************************************************************************)
\* the fixed, ordered list of input files
json_files == <<"oom.json", "disk.json", "throttle.json">>

NumFiles == Len(json_files)

\* time strings: the six digit groups of "YY/MM/DD HH:MM:SS"; <<>> is a
\* string that does not match the format at all
T1 == <<24, 1, 2, 3, 4, 5>>
T2 == <<99, 12, 31, 23, 59, 59>>
TBadMonth == <<24, 13, 2, 3, 4, 5>>

\* JSON objects of the input files
eError == [application_id |-> "app-1", message |-> "oom", level |-> "ERROR", time |-> T1]
eInfo == [application_id |-> "app-2", message |-> "ok", level |-> "INFO", time |-> T2]
eBadTime == [application_id |-> "app-1", message |-> "oom", level |-> "ERROR", time |-> TBadMonth]
eNoLevel == [application_id |-> "app-2", message |-> "ok", time |-> T2]

Entries == {eError, eInfo, eBadTime, eNoLevel}

SeqsUpTo(S, n) == UNION {[1..k -> S] : k \in 0..n}

Absent == [kind |-> "absent"]
InvalidJson == [kind |-> "invalid_json"]
Json(es) == [kind |-> "json", entries |-> es]

FileContents == {Absent, InvalidJson} \cup {Json(es) : es \in SeqsUpTo(Entries, MaxEntries)}

EntryCount(c) == IF c.kind = "json" THEN Len(c.entries) ELSE 0

FileSystems ==
    {fs \in [{json_files[i] : i \in 1..NumFiles} -> FileContents] :
        EntryCount(fs[json_files[1]]) + EntryCount(fs[json_files[2]])
            + EntryCount(fs[json_files[3]]) <= MaxTotal}

(***************************************************************************)
(* datetime.strptime(s, '%y/%m/%d %H:%M:%S') and the stored text           *)
(***************************************************************************)
IsLeap(y) == (y % 4 = 0 /\ y % 100 # 0) \/ y % 400 = 0

DaysInMonth(y, m) ==
    IF m = 2 THEN (IF IsLeap(y) THEN 29 ELSE 28)
    ELSE IF m \in {4, 6, 9, 11} THEN 30 ELSE 31

\* %y: 69..99 are 19xx, 0..68 are 20xx
Year(yy) == IF yy >= 69 THEN 1900 + yy ELSE 2000 + yy

strptime_ok(t) ==
    /\ Len(t) = 6
    /\ t[1] \in 0..99
    /\ t[2] \in 1..12
    /\ t[3] \in 1..DaysInMonth(Year(t[1]), t[2])
    /\ t[4] \in 0..23
    /\ t[5] \in 0..59
    /\ t[6] \in 0..59

\* the datetime; sqlite3's default adapter stores it as
\* "YYYY-MM-DD HH:MM:SS", here the six fields of that text
strptime(t) == <<Year(t[1]), t[2], t[3], t[4], t[5], t[6]>>

(***************************************************************************)
(* The logs table                                                          *)
(***************************************************************************)
Columns == {"id", "spark_app_id", "log_message", "log_level", "time"}

\* a counter that skips a value on every insert
NextId_skip(s) == s + 2
\* INTEGER PRIMARY KEY AUTOINCREMENT: one more than the largest id ever used
NextId(s) == s + 1

\* the row an INSERT of one entry creates
NewRow(id, entry) ==
    [id |-> id,
     spark_app_id |-> entry["application_id"],
     log_message |-> entry["message"],
     log_level |-> entry["level"],
     time |-> strptime(entry["time"])]

\* INSERT appends: the new row has the largest rowid
InsertRow(rs, r) == Append(rs, r)

\* the exception the body of the entry loop raises for an entry, or None
EntryError(entry) ==
    IF "time" \notin DOMAIN entry THEN "KeyError"
    ELSE IF ~strptime_ok(entry["time"]) THEN "ValueError"
    ELSE IF {"application_id", "message", "level"} \ DOMAIN entry # {}
         THEN "KeyError"
    ELSE None

\* total_entries = len(log_entries): the count of the last file only
AddTotal_overwrite(total, n) == n
\* total_entries += len(log_entries)
AddTotal(total, n) == total + n

\* a handler that gives up on the remaining files
AfterMissingFile_stop(i) == NumFiles + 1
\* the loop index after the FileNotFoundError handler: the next file
AfterMissingFile(i) == i + 1

\* `except Exception`: every error of the try block is swallowed
CaughtByHandler_broad(exc) == TRUE
\* does `except FileNotFoundError` catch the exception?
CaughtByHandler(exc) == exc = "FileNotFoundError"

(***************************************************************************)
(* Module import: create_logs_database() and the binding of conn           *)
(***************************************************************************)
NoCall == [kind |-> "nocall"]
NoQuery == [stmt |-> "none", proj |-> "", table |-> "", where |-> <<>>, set |-> <<>>]
NoArg == [t |-> "noarg"]
NoDisplay == [t |-> "nothing"]

InitExtractIdle ==
    /\ arg = NoArg
    /\ ret = NoCall
    /\ displayed = NoDisplay

Init ==
    /\ files \in FileSystems
    /\ pc = "start"
    /\ fi = 0
    /\ log_entries = <<>>
    /\ ei = 0
    /\ tableExists = FALSE
    /\ rows = <<>>
    /\ seq = 0
    /\ total_entries = 0
    /\ stdout = <<>>
    /\ conn = "unbound"
    /\ query = NoQuery
    /\ outcome = NoCall
    /\ InitExtractIdle

\* connect, CREATE TABLE logs, total_entries = 0
CreateTable ==
    /\ pc = "start"
    /\ tableExists' = TRUE
    /\ rows' = <<>>
    /\ seq' = 0
    /\ total_entries' = 0
    /\ fi' = 1
    /\ pc' = "loop"
    /\ UNCHANGED <<files, log_entries, ei, stdout, conn, query, outcome>>
    /\ UNCHANGED extractVars

\* an exception leaves the try block: handled by the FileNotFoundError
\* clause or propagated out of create_logs_database and of the import
Raise(exc) ==
    IF CaughtByHandler(exc)
    THEN /\ stdout' = Append(stdout, <<"warning", json_files[fi]>>)
         /\ fi' = AfterMissingFile(fi)
         /\ pc' = "loop"
         /\ UNCHANGED <<log_entries, ei>>
    ELSE /\ pc' = "raised"
         /\ UNCHANGED <<stdout, fi, log_entries, ei>>

\* open(json_file) and json.load(f)
OpenFile ==
    /\ pc = "loop"
    /\ fi <= NumFiles
    /\ LET c == files[json_files[fi]] IN
        CASE c.kind = "absent" -> Raise("FileNotFoundError")
          [] c.kind = "invalid_json" -> Raise("JSONDecodeError")
          [] OTHER ->
                /\ log_entries' = c.entries
                /\ ei' = 1
                /\ pc' = "entries"
                /\ UNCHANGED <<stdout, fi>>
    /\ UNCHANGED <<files, tableExists, rows, seq, total_entries, conn, query, outcome>>
    /\ UNCHANGED extractVars

\* one iteration of `for entry in log_entries`
InsertEntry ==
    /\ pc = "entries"
    /\ ei <= Len(log_entries)
    /\ LET entry == log_entries[ei]
           exc == EntryError(entry) IN
        IF exc # None
        THEN /\ Raise(exc)
             /\ UNCHANGED <<rows, seq>>
        ELSE /\ rows' = InsertRow(rows, NewRow(NextId(seq), entry))
             /\ seq' = NextId(seq)
             /\ ei' = ei + 1
             /\ UNCHANGED <<pc, fi, log_entries, stdout>>
    /\ UNCHANGED <<files, tableExists, total_entries, conn, query, outcome>>
    /\ UNCHANGED extractVars

\* after the entry loop: count and report the file, go on to the next
EndFile ==
    /\ pc = "entries"
    /\ ei > Len(log_entries)
    /\ total_entries' = AddTotal(total_entries, Len(log_entries))
    /\ stdout' = Append(stdout, <<"loaded", Len(log_entries), json_files[fi]>>)
    /\ fi' = fi + 1
    /\ pc' = "loop"
    /\ UNCHANGED <<files, log_entries, ei, tableExists, rows, seq, conn, query, outcome>>
    /\ UNCHANGED extractVars

\* conn.commit(), the total line, return conn
CommitAndReturn ==
    /\ pc = "loop"
    /\ fi > NumFiles
    /\ stdout' = Append(stdout, <<"total", total_entries>>)
    /\ pc' = "returned"
    /\ UNCHANGED <<files, fi, log_entries, ei, tableExists, rows, seq,
                   total_entries, conn, query, outcome>>
    /\ UNCHANGED extractVars

\* conn = create_logs_database(); execute_query is defined after it
BindConn ==
    /\ pc = "returned"
    /\ conn' = "bound"
    /\ pc' = "ready"
    /\ UNCHANGED <<files, fi, log_entries, ei, tableExists, rows, seq,
                   total_entries, stdout, query, outcome>>
    /\ UNCHANGED extractVars

(***************************************************************************)
(* execute_query: the statements a caller may pass, as parsed by SQLite    *)
(***************************************************************************)
Q(stmt, proj, table, where, set) ==
    [stmt |-> stmt, proj |-> proj, table |-> table, where |-> where, set |-> set]

\* SELECT COUNT( * ) FROM logs
CountQuery == Q("select", "count", "logs", <<>>, <<>>)
\* SELECT * FROM logs WHERE level = 'ERROR'
ErrorLevelQuery == Q("select", "star", "logs", <<"level", "ERROR">>, <<>>)
\* SELECT * FROM logs WHERE log_level = 'ERROR'
ErrorLogLevelQuery == Q("select", "star", "logs", <<"log_level", "ERROR">>, <<>>)
\* SELECT * FROM logs
SelectAllQuery == Q("select", "star", "logs", <<>>, <<>>)
\* SELECT * FROM nologs
NoTableQuery == Q("select", "star", "nologs", <<>>, <<>>)
\* SELEC * FROM logs
SyntaxErrorQuery == Q("syntax_error", "", "logs", <<>>, <<>>)
\* DELETE FROM logs WHERE log_level = 'INFO'
DeleteInfoQuery == Q("delete", "", "logs", <<"log_level", "INFO">>, <<>>)
\* UPDATE logs SET log_level = 'WARN' WHERE log_level = 'ERROR'
UpdateQuery == Q("update", "", "logs", <<"log_level", "ERROR">>, <<"log_level", "WARN">>)
\* DROP TABLE logs
DropQuery == Q("drop", "", "logs", <<>>, <<>>)

Queries == {CountQuery, ErrorLevelQuery, ErrorLogLevelQuery, SelectAllQuery,
            NoTableQuery, SyntaxErrorQuery, DeleteInfoQuery, UpdateQuery,
            DropQuery}

\* a prepare step that does not resolve the table name
QueryError_noTableCheck(q, tbl) ==
    IF q.stmt = "syntax_error" THEN "OperationalError: syntax error"
    ELSE IF q.where # <<>> /\ q.where[1] \notin Columns
         THEN "OperationalError: no such column"
    ELSE IF q.set # <<>> /\ q.set[1] \notin Columns
         THEN "OperationalError: no such column"
    ELSE None
\* the error cursor.execute raises while preparing the statement, or None
QueryError(q, tbl) ==
    IF q.stmt = "syntax_error" THEN "OperationalError: syntax error"
    ELSE IF q.table # "logs" \/ ~tbl THEN "OperationalError: no such table"
    ELSE IF q.where # <<>> /\ q.where[1] \notin Columns
         THEN "OperationalError: no such column"
    ELSE IF q.set # <<>> /\ q.set[1] \notin Columns
         THEN "OperationalError: no such column"
    ELSE None

\* does the row satisfy the WHERE clause col = val (<<>>: no clause)?
Matches(r, where) == where = <<>> \/ r[where[1]] = where[2]

\* the rows a WHERE clause selects, in rowid order
Where(rs, where) ==
    LET Test(r) == Matches(r, where) IN SelectSeq(rs, Test)

\* a row as fetchall() returns it: the columns in declaration order
AsTuple(r) == <<r.id, r.spark_app_id, r.log_message, r.log_level, r.time>>

\* cursor.fetchall() after a successful cursor.execute(query)
Fetch(q, rs) ==
    IF q.stmt = "select"
    THEN LET sel == Where(rs, q.where) IN
         IF q.proj = "count" THEN << <<Len(sel)>> >>
         ELSE [i \in 1..Len(sel) |-> AsTuple(sel[i])]
    ELSE <<>>

\* a SELECT that consumes the rows it returns
RowsAfter_consume(q, rs) ==
    CASE q.stmt \in {"delete", "select"} ->
            LET Keep(r) == ~Matches(r, q.where) IN SelectSeq(rs, Keep)
      [] q.stmt = "update" ->
            [i \in 1..Len(rs) |->
                IF Matches(rs[i], q.where)
                THEN [rs[i] EXCEPT ![q.set[1]] = q.set[2]]
                ELSE rs[i]]
      [] q.stmt = "drop" -> <<>>
      [] OTHER -> rs

\* the rows of logs after a successful cursor.execute(query)
RowsAfter(q, rs) ==
    CASE q.stmt = "delete" ->
            LET Keep(r) == ~Matches(r, q.where) IN SelectSeq(rs, Keep)
      [] q.stmt = "update" ->
            [i \in 1..Len(rs) |->
                IF Matches(rs[i], q.where)
                THEN [rs[i] EXCEPT ![q.set[1]] = q.set[2]]
                ELSE rs[i]]
      [] q.stmt = "drop" -> <<>>
      [] OTHER -> rs

\* cursor = conn.cursor(); cursor.execute(query); return cursor.fetchall()
execute_query(q) ==
    /\ pc = "ready"
    /\ conn = "bound"
    /\ query' = q
    /\ LET err == QueryError(q, tableExists) IN
        IF err # None
        THEN /\ outcome' = [kind |-> "raise", exc |-> err]
             /\ UNCHANGED <<rows, tableExists>>
        ELSE /\ outcome' = [kind |-> "rows", rows |-> Fetch(q, rows)]
             /\ rows' = RowsAfter(q, rows)
             /\ tableExists' = (tableExists /\ q.stmt # "drop")
    /\ UNCHANGED <<files, pc, fi, log_entries, ei, seq, total_entries, stdout, conn>>
    /\ UNCHANGED extractVars

ExecuteQuery == \E q \in Queries : execute_query(q)

Next ==
    \/ CreateTable
    \/ OpenFile
    \/ InsertEntry
    \/ EndFile
    \/ CommitAndReturn
    \/ BindConn
    \/ ExecuteQuery

Spec == Init /\ [][Next]_vars

(***************************************************************************)
(* Python values seen by extract_agent_response.  A str is its sequence of *)
(* characters; a dict is its sequence of <<key, value>> items.             *)
(***************************************************************************)
PyString(cs) == [t |-> "str", s |-> cs]
PyInt(n) == [t |-> "int", n |-> n]
PyNone == [t |-> "NoneType"]
List(xs) == [t |-> "list", items |-> xs]
Dict(kvs) == [t |-> "dict", kvs |-> kvs]
\* a message object of the agent framework: it has a content attribute
AIMessage(c) == [t |-> "AIMessage", content |-> c]
\* an object with a get() method; got is what calling it does
Handle(got) == [t |-> "Handle", get |-> got]

Return(v) == [kind |-> "return", value |-> v]
RaiseExc(exc, msg) == [kind |-> "raise", exc |-> exc, msg |-> msg]

\* the key 'messages'
S_messages == <<"m", "e", "s", "s", "a", "g", "e", "s">>
S_content == <<"c", "o", "n", "t", "e", "n", "t">>
S_a == <<"a">>
S_hello == <<"h", "e", "l", "l", "o">>
S_bye == <<"b", "y", "e">>
S_boom == <<"b", "o", "o", "m">>
\* the literal returned for a falsy messages value
S_NoMessages ==
    <<"N", "o", " ", "m", "e", "s", "s", "a", "g", "e", "s", " ", "f", "o",
      "u", "n", "d", " ", "i", "n", " ", "r", "e", "s", "u", "l", "t">>
\* the pieces of the f-string of the except clause
S_ErrorPrefix ==
    <<"E", "r", "r", "o", "r", " ", "a", "c", "c", "e", "s", "s", "i", "n",
      "g", " ", "r", "e", "s", "u", "l", "t", ":", " ">>
S_ResultType ==
    <<"\n", "R", "e", "s", "u", "l", "t", " ", "t", "y", "p", "e", ":", " ">>
S_Result == <<"\n", "R", "e", "s", "u", "l", "t", ":", " ">>
\* str(type(x)) is <class 'NAME'>
S_ClassOpen == <<"<", "c", "l", "a", "s", "s", " ", "'">>
S_ClassClose == <<"'", ">">>
S_None == <<"N", "o", "n", "e">>
\* str(e) of the TypeError of dict.get()
S_GetArgs ==
    <<"g", "e", "t", " ", "e", "x", "p", "e", "c", "t", "e", "d", " ", "a",
      "t", " ", "l", "e", "a", "s", "t", " ", "1", " ", "a", "r", "g", "u",
      "m", "e", "n", "t", ",", " ", "g", "o", "t", " ", "0">>
S_NotSubscriptable ==
    <<"'", "i", "n", "t", "'", " ", "o", "b", "j", "e", "c", "t", " ", "i",
      "s", " ", "n", "o", "t", " ", "s", "u", "b", "s", "c", "r", "i", "p",
      "t", "a", "b", "l", "e">>
S_NoGet ==
    <<"o", "b", "j", "e", "c", "t", " ", "h", "a", "s", " ", "n", "o", " ",
      "a", "t", "t", "r", "i", "b", "u", "t", "e", " ", "'", "g", "e", "t", "'">>
S_NoContent ==
    <<"o", "b", "j", "e", "c", "t", " ", "h", "a", "s", " ", "n", "o", " ",
      "a", "t", "t", "r", "i", "b", "u", "t", "e", " ", "'", "c", "o", "n",
      "t", "e", "n", "t", "'">>
\* type names
S_int == <<"i", "n", "t">>
S_str == <<"s", "t", "r">>
S_dict == <<"d", "i", "c", "t">>
S_list == <<"l", "i", "s", "t">>
S_NoneType == <<"N", "o", "n", "e", "T", "y", "p", "e">>
S_Handle ==
    <<"_", "_", "m", "a", "i", "n", "_", "_", ".", "H", "a", "n", "d", "l",
      "e">>
S_AIMessage ==
    <<"l", "a", "n", "g", "c", "h", "a", "i", "n", "_", "c", "o", "r", "e",
      ".", "m", "e", "s", "s", "a", "g", "e", "s", ".", "a", "i", ".", "A",
      "I", "M", "e", "s", "s", "a", "g", "e">>
\* repr of a Handle object
S_HandleRepr == <<"<", "H", "a", "n", "d", "l", "e", ">">>
S_AIMessageRepr == <<"A", "I", "M", "e", "s", "s", "a", "g", "e", "(", ")">>

Digits == <<"0", "1", "2", "3", "4", "5", "6", "7", "8", "9">>

RECURSIVE NatStr(_)
NatStr(n) == IF n < 10 THEN <<Digits[n + 1]>>
             ELSE Append(NatStr(n \div 10), Digits[(n % 10) + 1])

\* str() of an int
IntStr(n) == IF n < 0 THEN <<"-">> \o NatStr(0 - n) ELSE NatStr(n)

\* type(x).__module__-qualified name as str(type(x)) shows it
TypeName(v) ==
    CASE v.t = "str" -> S_str
      [] v.t = "int" -> S_int
      [] v.t = "NoneType" -> S_NoneType
      [] v.t = "list" -> S_list
      [] v.t = "dict" -> S_dict
      [] v.t = "Handle" -> S_Handle
      [] OTHER -> S_AIMessage

\* str(type(x))
TypeStr(v) == S_ClassOpen \o TypeName(v) \o S_ClassClose

RECURSIVE PyRepr(_)
RECURSIVE JoinRepr(_, _)
RECURSIVE JoinItems(_, _)
\* repr(x)
PyRepr(v) ==
    CASE v.t = "str" -> <<"'">> \o v.s \o <<"'">>
      [] v.t = "int" -> IntStr(v.n)
      [] v.t = "NoneType" -> S_None
      [] v.t = "list" -> <<"[">> \o JoinRepr(v.items, 1) \o <<"]">>
      [] v.t = "dict" -> <<"{">> \o JoinItems(v.kvs, 1) \o <<"}">>
      [] v.t = "Handle" -> S_HandleRepr
      [] OTHER -> S_AIMessageRepr

\* the elements of a list display from index i on, comma separated
JoinRepr(xs, i) ==
    IF i > Len(xs) THEN <<>>
    ELSE PyRepr(xs[i]) \o (IF i < Len(xs) THEN <<",", " ">> ELSE <<>>)
            \o JoinRepr(xs, i + 1)

\* the key: value items of a dict display from index i on
JoinItems(kvs, i) ==
    IF i > Len(kvs) THEN <<>>
    ELSE PyRepr(PyString(kvs[i][1])) \o <<":", " ">> \o PyRepr(kvs[i][2])
            \o (IF i < Len(kvs) THEN <<",", " ">> ELSE <<>>)
            \o JoinItems(kvs, i + 1)

\* str(x): the text itself for a str, repr(x) for the other values
PyStr(v) == IF v.t = "str" THEN v.s ELSE PyRepr(v)

\* bool(x)
Truthy(v) ==
    CASE v.t = "NoneType" -> FALSE
      [] v.t = "int" -> v.n # 0
      [] v.t = "str" -> v.s # <<>>
      [] v.t = "list" -> v.items # <<>>
      [] v.t = "dict" -> v.kvs # <<>>
      [] OTHER -> TRUE

\* hasattr(x, name) for the two names the function uses
HasAttr(v, name) ==
    \/ name = "get" /\ v.t \in {"dict", "Handle"}
    \/ name = "content" /\ v.t = "AIMessage"

\* key in d
HasKey(d, key) == \E i \in 1..Len(d.kvs) : d.kvs[i][1] = key

\* d[key]
Lookup(d, key) == d.kvs[CHOOSE i \in 1..Len(d.kvs) : d.kvs[i][1] = key][2]

\* is the exception class a subclass of Exception?
IsException(exc) == exc \notin {"KeyboardInterrupt", "SystemExit", "GeneratorExit"}

\* result.get(): dict.get needs a key, a Handle does what it was built to do
CallGet(v) ==
    IF v.t = "dict" THEN RaiseExc("TypeError", S_GetArgs) ELSE v.get

(***************************************************************************)
(* extract_agent_response                                                  *)
(***************************************************************************)
\* messages[-1].content of a truthy messages value
LastContent(messages) ==
    IF messages.t # "list"
    THEN RaiseExc("TypeError", S_NotSubscriptable)
    ELSE LET last_message == messages.items[Len(messages.items)] IN
         IF HasAttr(last_message, "content")
         THEN Return(last_message.content)
         ELSE RaiseExc("AttributeError",
                       <<"'">> \o TypeName(last_message) \o <<"'", " ">> \o S_NoContent)

\* result.get() without the hasattr test: AttributeError for a plain value
AlternativeContent_noHasattr(result) ==
    IF HasAttr(result, "get") THEN CallGet(result)
    ELSE RaiseExc("AttributeError",
                  <<"'">> \o TypeName(result) \o <<"'", " ">> \o S_NoGet)

\* result.get() if hasattr(result, 'get') else result
AlternativeContent(result) ==
    IF HasAttr(result, "get") THEN CallGet(result) ELSE Return(result)

\* the f-string of the except clause
ErrorString(e, result) ==
    S_ErrorPrefix \o e.msg \o S_ResultType \o TypeStr(result)
        \o S_Result \o PyStr(result)

\* the else branch: try / except Exception
AlternativeAccess(result) ==
    LET content == AlternativeContent(result) IN
    IF content.kind = "return" THEN Return(PyString(PyStr(content.value)))
    ELSE IF IsException(content.exc) THEN Return(PyString(ErrorString(content, result)))
    ELSE content

extract_agent_response(result) ==
    IF result.t = "dict" /\ HasKey(result, S_messages)
    THEN LET messages == Lookup(result, S_messages) IN
         IF Truthy(messages)
         THEN LastContent(messages)
         ELSE Return(PyString(S_NoMessages))
    ELSE AlternativeAccess(result)

(***************************************************************************)
(* Result objects handed to the helpers                                    *)
(***************************************************************************)
\* a message that is a plain mapping instead of a message object
DictMessage(c) == Dict(<< <<S_content, c>> >>)

Messages ==
    {AIMessage(PyString(S_hello)), AIMessage(PyString(S_bye)), AIMessage(PyString(<<>>)),
     AIMessage(List(<<PyString(S_hello)>>)), DictMessage(PyString(S_hello))}

MessagesValues ==
    {List(ms) : ms \in SeqsUpTo(Messages, MaxMsgs)} \cup {PyNone, PyInt(5)}

WithMessages(m) == Dict(<< <<S_messages, m>> >>)

Results ==
    {WithMessages(m) : m \in MessagesValues}
    \cup {Dict(<< <<S_a, PyInt(1)>> >>), PyInt(42), PyInt(0), PyInt(0 - 7),
          PyString(S_hello), PyString(<<>>), PyNone,
          List(<<PyString(S_hello), PyInt(42)>>),
          Handle(Return(PyString(S_hello))), Handle(Return(PyInt(42))),
          Handle(Return(PyNone)),
          Handle(RaiseExc("ValueError", S_boom)),
          Handle(RaiseExc("KeyboardInterrupt", <<>>))}

InitExtract ==
    /\ files = [f \in {json_files[i] : i \in 1..NumFiles} |-> Absent]
    /\ pc = "idle"
    /\ fi = 0
    /\ log_entries = <<>>
    /\ ei = 0
    /\ tableExists = FALSE
    /\ rows = <<>>
    /\ seq = 0
    /\ total_entries = 0
    /\ stdout = <<>>
    /\ conn = "unbound"
    /\ query = NoQuery
    /\ outcome = NoCall
    /\ arg \in Results
    /\ ret = NoCall
    /\ displayed = NoDisplay

\* a direct call extract_agent_response(result)
ExtractAgentResponse ==
    /\ pc = "idle"
    /\ ret' = extract_agent_response(arg)
    /\ UNCHANGED <<arg, displayed>>
    /\ UNCHANGED storeVars

\* print_agent_response(result): response = extract_agent_response(result),
\* then display(Markdown(response)); Markdown() accepts text only, and an
\* exception of either call leaves nothing displayed
PrintAgentResponse ==
    /\ pc = "idle"
    /\ LET response == extract_agent_response(arg) IN
        /\ ret' = response
        /\ displayed' = IF response.kind = "return" /\ response.value.t = "str"
                        THEN response.value
                        ELSE displayed
    /\ UNCHANGED arg
    /\ UNCHANGED storeVars

NextExtract ==
    \/ ExtractAgentResponse
    \/ PrintAgentResponse

SpecExtract == InitExtract /\ [][NextExtract]_vars

(***************************************************************************)
(* Vocabulary of the properties                                            *)
(***************************************************************************)
Range(sq) == {sq[i] : i \in 1..Len(sq)}

\* sub occurs in s as a contiguous substring
Contains(s, sub) ==
    \E i \in 0..(Len(s) - Len(sub)) : SubSeq(s, i + 1, i + Len(sub)) = sub

\* an input object with the four keys and a time of the expected format
WellFormedEntry(e) ==
    /\ DOMAIN e = {"application_id", "message", "level", "time"}
    /\ strptime_ok(e["time"])

WellFormedFile(c) ==
    c.kind = "json" /\ \A i \in 1..Len(c.entries) : WellFormedEntry(c.entries[i])

IsAbsent(i) == files[json_files[i]].kind = "absent"

AllWellFormed ==
    \A i \in 1..NumFiles : IsAbsent(i) \/ WellFormedFile(files[json_files[i]])

\* a present file that is invalid JSON or holds a malformed entry
AnyMalformed ==
    \E i \in 1..NumFiles : ~IsAbsent(i) /\ ~WellFormedFile(files[json_files[i]])

FileEntries(i) ==
    IF files[json_files[i]].kind = "json" THEN files[json_files[i]].entries ELSE <<>>

\* the entries of the present files, in list order then file order
AllEntries == FileEntries(1) \o FileEntries(2) \o FileEntries(3)

\* the row holds the fields of the entry
RowOf(r, e) ==
    /\ r.spark_app_id = e["application_id"]
    /\ r.log_message = e["message"]
    /\ r.log_level = e["level"]

\* create_logs_database is still running
Loading == pc \in {"start", "loop", "entries"}

(***************************************************************************)
(* C1: absent files are skipped.  Whatever subset of the three files is    *)
(* absent, create_logs_database() does not raise when the present files    *)
(* are well formed and never gets stuck; when it has returned, a warning   *)
(* was printed for each absent file and the table holds exactly the        *)
(* entries of the present files, those after an absent file included; with *)
(* all three absent the total is 0 and the table is empty.                 *)
(***************************************************************************)
C1_AbsentFilesSkipped ==
    /\ AllWellFormed => pc # "raised"
    /\ Loading => ENABLED (CreateTable \/ OpenFile \/ InsertEntry \/ EndFile
                              \/ CommitAndReturn)
    /\ pc = "returned" =>
        /\ \A i \in 1..NumFiles :
              IsAbsent(i) <=> <<"warning", json_files[i]>> \in Range(stdout)
        /\ Len(rows) = Len(AllEntries)
        /\ \A k \in 1..Len(rows) : RowOf(rows[k], AllEntries[k])
        /\ total_entries = Len(AllEntries)
        /\ (\A i \in 1..NumFiles : IsAbsent(i)) =>
                total_entries = 0 /\ rows = <<>>

\* returned with the first file absent and entries of later files loaded
C1_Witness ==
    /\ pc = "returned"
    /\ IsAbsent(1)
    /\ ~IsAbsent(2) /\ IsAbsent(3)
    /\ Len(rows) >= 1

\* returned with no file at all
C1_WitnessNone ==
    /\ pc = "returned"
    /\ \A i \in 1..NumFiles : IsAbsent(i)

(***************************************************************************)
(* C2: after create_logs_database() over well-formed files with N entries  *)
(* in total the table holds N rows with the ids 1..N, each id once, and    *)
(* the row with id k is the k-th entry in list order then file order.      *)
(***************************************************************************)
C2_ContiguousIds ==
    pc = "returned" =>
        /\ Len(rows) = Len(AllEntries)
        /\ {rows[k].id : k \in 1..Len(rows)} = 1..Len(AllEntries)
        /\ \A j, k \in 1..Len(rows) : j < k => rows[j].id < rows[k].id
        /\ \A k \in 1..Len(AllEntries) :
              \E j \in 1..Len(rows) : rows[j].id = k /\ RowOf(rows[j], AllEntries[k])

\* two different entries in one file and a later file with an entry
C2_Witness ==
    /\ pc = "returned"
    /\ Len(FileEntries(1)) = 2
    /\ FileEntries(1)[1] # FileEntries(1)[2]
    /\ Len(FileEntries(3)) = 1
    /\ Len(rows) = 3

(***************************************************************************)
(* C3: the counting query (CountQuery), as first query after the import,   *)
(* returns one row whose single value is the total_entries that            *)
(* create_logs_database() reported.                                        *)
(***************************************************************************)
C3_CountEqualsTotal ==
    [][(pc = "ready" /\ outcome = NoCall /\ query' = CountQuery) =>
          outcome' = [kind |-> "rows", rows |-> << <<total_entries>> >>]]_vars

\* the count answered over a store loaded from two files, one file absent
C3_Witness ==
    /\ query = CountQuery
    /\ outcome = [kind |-> "rows", rows |-> << <<total_entries>> >>]
    /\ total_entries = 3
    /\ \E i \in 1..NumFiles : IsAbsent(i)
    /\ "total" \in {stdout[i][1] : i \in 1..Len(stdout)}

(***************************************************************************)
(* C4: SELECT * FROM logs WHERE level = 'ERROR', as first query after the  *)
(* import, returns exactly the loaded rows whose level is "ERROR", in id   *)
(* order.                                                                  *)
(***************************************************************************)
ErrorRows ==
    LET IsError(r) == r.log_level = "ERROR"
        sel == SelectSeq(rows, IsError)
    IN [i \in 1..Len(sel) |-> AsTuple(sel[i])]

C4_ErrorLevelRows ==
    [][(pc = "ready" /\ outcome = NoCall /\ query' = ErrorLevelQuery) =>
          outcome' = [kind |-> "rows", rows |-> ErrorRows]]_vars

(***************************************************************************)
(* C5: extract_agent_response never raises: whatever the shape of the      *)
(* result, the call returns a str (an interrupt raised inside get(), which *)
(* no handler is meant to catch, aside).                                   *)
(***************************************************************************)
Interrupted(r) ==
    r.t = "Handle" /\ r.get.kind = "raise" /\ ~IsException(r.get.exc)

C5_AlwaysReturnsStr ==
    (ret # NoCall /\ ~Interrupted(arg)) =>
        ret.kind = "return" /\ ret.value.t = "str"

(***************************************************************************)
(* C6: for a mapping with a 'messages' list the call returns the content   *)
(* of the last message (the value under 'content' for a message that is a  *)
(* mapping), and "No messages found in result" for an empty list.          *)
(***************************************************************************)
ContentOf(m) == IF m.t = "dict" THEN Lookup(m, S_content) ELSE m.content

HasMessagesList(r) ==
    r.t = "dict" /\ HasKey(r, S_messages) /\ Lookup(r, S_messages).t = "list"

C6_LastMessageContent ==
    (ret # NoCall /\ HasMessagesList(arg)) =>
        LET ms == Lookup(arg, S_messages).items IN
        IF ms = <<>> THEN ret = Return(PyString(S_NoMessages))
        ELSE ret = Return(ContentOf(ms[Len(ms)]))

(***************************************************************************)
(* C7 as stated: for a result that is neither a mapping with 'messages'    *)
(* nor an object with a get accessor, the call returns a string holding    *)
(* "Error accessing result" and the type name of the input.                *)
(***************************************************************************)
S_ErrorAccessing == SubSeq(S_ErrorPrefix, 1, Len(S_ErrorPrefix) - 2)

IsErrorString(out, r) ==
    /\ out.kind = "return"
    /\ out.value.t = "str"
    /\ Contains(out.value.s, S_ErrorAccessing)
    /\ Contains(out.value.s, TypeName(r))

PlainValue(r) ==
    ~(r.t = "dict" /\ HasKey(r, S_messages)) /\ r.t \notin {"dict", "Handle"}

C7_ErrorStringForPlainValue ==
    (ret # NoCall /\ PlainValue(arg)) => IsErrorString(ret, arg)

(***************************************************************************)
(* C7 amended: for such a result the call returns str(result), "42" for    *)
(* 42; the error string with "Error accessing result" and the type name is *)
(* what it returns when the result has a get accessor whose call raises an *)
(* Exception.                                                              *)
(***************************************************************************)
GetRaisesException(r) ==
    /\ ~(r.t = "dict" /\ HasKey(r, S_messages))
    /\ r.t \in {"dict", "Handle"}
    /\ CallGet(r).kind = "raise"
    /\ IsException(CallGet(r).exc)

C7_PlainValueIsStringified ==
    /\ (ret # NoCall /\ PlainValue(arg)) =>
          /\ ret.kind = "return"
          /\ ret.value.t = "str"
          /\ ret.value.s = (IF arg.t = "str" THEN arg.s ELSE PyRepr(arg))
          /\ ~Contains(ret.value.s, S_ErrorAccessing)
    /\ (ret # NoCall /\ arg = PyInt(42)) => ret = Return(PyString(<<"4", "2">>))
    /\ (ret # NoCall /\ GetRaisesException(arg)) => IsErrorString(ret, arg)

\* extract_agent_response(42) has returned "42"
C7_Witness ==
    /\ arg = PyInt(42)
    /\ ret = Return(PyString(<<"4", "2">>))

(***************************************************************************)
(* C8 as stated: no execute_query call, whatever its query, changes the    *)
(* records a later call sees.                                              *)
(***************************************************************************)
C8_NeverMutated ==
    [][(pc = "ready" /\ pc' = "ready") =>
          (rows' = rows /\ tableExists' = tableExists)]_vars

(***************************************************************************)
(* C8 amended: an execute_query call whose query is a SELECT, or which     *)
(* fails, leaves the table and its rows as they were.                      *)
(***************************************************************************)
C8_ReadOnlyQueriesPreserve ==
    [][(pc = "ready" /\ pc' = "ready"
            /\ (query'.stmt = "select" \/ outcome'.kind = "raise")) =>
          (rows' = rows /\ tableExists' = tableExists)]_vars

\* a SELECT has returned rows and the rows are still there
C8_Witness ==
    /\ pc = "ready"
    /\ query = SelectAllQuery
    /\ outcome.kind = "rows"
    /\ Len(outcome.rows) = 3
    /\ Len(rows) = 3

(***************************************************************************)
(* C9: a query that is syntactically invalid or names a table or column    *)
(* that does not exist makes execute_query raise; no rows are returned,    *)
(* the table is unchanged and every query that was valid before is valid   *)
(* after and fetches the same rows.                                        *)
(***************************************************************************)
IsInvalid(q, tbl) ==
    \/ q.stmt = "syntax_error"
    \/ q.table # "logs"
    \/ ~tbl
    \/ (q.where # <<>> /\ q.where[1] \notin Columns)

C9_InvalidQueryFails ==
    [][(pc = "ready" /\ pc' = "ready" /\ IsInvalid(query', tableExists)) =>
          /\ outcome'.kind = "raise"
          /\ rows' = rows
          /\ tableExists' = tableExists
          /\ \A q \in Queries :
                ~IsInvalid(q, tableExists) =>
                    /\ ~IsInvalid(q, tableExists')
                    /\ Fetch(q, rows') = Fetch(q, rows)]_vars

\* a query on a missing table has failed over a non-empty store
C9_Witness ==
    /\ pc = "ready"
    /\ query = NoTableQuery
    /\ outcome.kind = "raise"
    /\ Len(rows) >= 2

(***************************************************************************)
(* C10 as stated: with a malformed present file conn is never bound, and   *)
(* whenever conn is bound the row count is the number of entries of the    *)
(* present files.                                                          *)
(***************************************************************************)
C10_QueryableMeansFullLoad ==
    /\ AnyMalformed => conn = "unbound" /\ pc \notin {"returned", "ready"}
    /\ conn = "bound" => Len(rows) = Len(AllEntries)

(***************************************************************************)
(* C10 amended: with a malformed present file create_logs_database()       *)
(* never returns and conn is never bound; when conn becomes bound the row  *)
(* count is the number of entries of the present files, and it stays so    *)
(* over every execute_query call that is a SELECT or fails.                *)
(***************************************************************************)
C10_NoPartialStoreQueryable ==
    [][/\ AnyMalformed => conn' = "unbound" /\ pc' \notin {"returned", "ready"}
       /\ (conn = "unbound" /\ conn' = "bound") => Len(rows') = Len(AllEntries)
       /\ (conn = "bound" /\ Len(rows) = Len(AllEntries)
               /\ (query'.stmt = "select" \/ outcome'.kind = "raise")) =>
             Len(rows') = Len(AllEntries)]_vars

\* the import has failed after rows were inserted, and conn is unbound
C10_Witness ==
    /\ pc = "raised"
    /\ Len(rows) >= 1
    /\ conn = "unbound"

====
